---- MODULE Spec2Model ----
(***************************************************************************)
(* Lotka-Volterra phase-plane script                                       *)
(* (chapitre_1/plan_phases_proie_predateur/main.py) as a state machine.    *)
(*                                                                         *)
(* The script is a straight line of module-level statements; each action   *)
(* below is one statement (or one block of rendering statements), and pc   *)
(* is the position of the interpreter.  Python floats are IEEE-754         *)
(* binary64 numbers; they are modelled bit for bit (53-bit significand,    *)
(* round to nearest, ties to even) on top of an arbitrary-precision        *)
(* natural-number layer, because TLC's integers are 32 bits wide.          *)
(***************************************************************************)
EXTENDS Integers, Sequences, FiniteSets, TLC

(***************************************************************************)
(* The arithmetic unit.  Every operation on big naturals and on floats is  *)
(* requested from Arith(op, a) by name, with its operands in the tuple a;  *)
(* the operators below are those requests under the operations' own names, *)
(* and the operation op is defined further down as opImpl.                 *)
(***************************************************************************)
\* F applied to the value of v: Python evaluates an argument once, before
\* the call
Bind(v, F(_)) == CHOOSE r \in { F(u) : u \in {v} } : TRUE

Bind2(v, w, F(_, _)) == CHOOSE r \in { F(u1, u2) : u1 \in {v}, u2 \in {w} } : TRUE

RECURSIVE Arith(_, _)

FAdd(x, y) == Arith("FAdd", <<x, y>>)

FMul(x, y) == Arith("FMul", <<x, y>>)

FSub(x, y) == Arith("FSub", <<x, y>>)

FDiv(x, y) == Arith("FDiv", <<x, y>>)

FRound(neg, M, e) == Arith("FRound", <<neg, M, e>>)

Canon(neg, M, e) == Arith("Canon", <<neg, M, e>>)

ExactAdd(x, y) == Arith("ExactAdd", <<x, y>>)

BShl(a, k) == Arith("BShl", <<a, k>>)

BShr(a, k) == Arith("BShr", <<a, k>>)

BAdd(a, b) == Arith("BAdd", <<a, b>>)

BSub(a, b) == Arith("BSub", <<a, b>>)

BCmp(a, b) == Arith("BCmp", <<a, b>>)

BBitLen(a) == Arith("BBitLen", <<a>>)

BMul(a, b) == Arith("BMul", <<a, b>>)

BMulSmall(a, d) == Arith("BMulSmall", <<a, d>>)

FCmp(x, y) == Arith("FCmp", <<x, y>>)

MagCmp(x, y) == Arith("MagCmp", <<x, y>>)

FInt(n) == Arith("FInt", <<n>>)

FLit(n, d) == Arith("FLit", <<n, d>>)

FCeil(x) == Arith("FCeil", <<x>>)

BDivMod(n, d) == Arith("BDivMod", <<n, d>>)

BDivLimbs(n, d, j, r) == Arith("BDivLimbs", <<n, d, j, r>>)

BDigit(r, d) == Arith("BDigit", <<r, d>>)

BDoublePlus(a, bit) == Arith("BDoublePlus", <<a, bit>>)

XAdd(x, y) == Arith("XAdd", <<x, y>>)

XMul(x, y) == Arith("XMul", <<x, y>>)

(***************************************************************************)
(* Natural numbers of any size: little-endian sequences of 15-bit limbs,   *)
(* without leading zero limbs (so equal numbers are equal sequences).      *)
(***************************************************************************)
LimbBits == 14 + 1

Base == 2^LimbBits

Pow2(k) == 2^k

Limb(a, i) == IF i >= 1 /\ i <= Len(a) THEN a[i] ELSE 0

Max(a, b) == IF a >= b THEN a ELSE b

Min(a, b) == IF a <= b THEN a ELSE b

RECURSIVE BNorm(_)
BNorm(a) ==
    IF a = <<>> THEN <<>>
    ELSE IF a[Len(a)] = 0 THEN BNorm(SubSeq(a, 1, Len(a) - 1))
    ELSE a

BFromNat(n) == BNorm(<<n % Base, (n \div Base) % Base, n \div (Base * Base)>>)

\* The value of a number known to fit TLC's integers.
BToNat(a) == Limb(a, 1) + Base * Limb(a, 2) + Base * Base * Limb(a, 3)

RECURSIVE BAddC(_, _, _, _)
BAddC(a, b, i, c) ==
    IF i > Max(Len(a), Len(b))
    THEN (IF c = 0 THEN <<>> ELSE <<c>>)
    ELSE LET s == Limb(a, i) + Limb(b, i) + c
         IN  <<s % Base>> \o BAddC(a, b, i + 1, s \div Base)

BAddImpl(a, b) == BAddC(a, b, 1, 0)

RECURSIVE BSubC(_, _, _, _)
BSubC(a, b, i, c) ==
    IF i > Len(a) THEN <<>>
    ELSE LET s == Limb(a, i) - Limb(b, i) - c
         IN  IF s < 0 THEN <<s + Base>> \o BSubC(a, b, i + 1, 1)
             ELSE <<s>> \o BSubC(a, b, i + 1, 0)

\* a - b for a >= b
BSubImpl(a, b) == BNorm(BSubC(a, b, 1, 0))

RECURSIVE BCmpAt(_, _, _)
BCmpAt(a, b, i) ==
    IF i = 0 THEN 0
    ELSE IF a[i] < b[i] THEN -1
    ELSE IF a[i] > b[i] THEN 1
    ELSE BCmpAt(a, b, i - 1)

\* -1, 0, 1 as a < b, a = b, a > b
BCmpImpl(a, b) ==
    IF Len(a) < Len(b) THEN -1
    ELSE IF Len(a) > Len(b) THEN 1
    ELSE BCmpAt(a, b, Len(a))

RECURSIVE BMulSmallC(_, _, _, _)
BMulSmallC(a, d, i, c) ==
    IF i > Len(a)
    THEN (IF c = 0 THEN <<>> ELSE <<c>>)
    ELSE LET s == a[i] * d + c
         IN  <<s % Base>> \o BMulSmallC(a, d, i + 1, s \div Base)

\* a * d for one limb d
BMulSmallImpl(a, d) == IF d = 0 THEN <<>> ELSE BMulSmallC(a, d, 1, 0)

BMulImpl(a, b) ==
    IF a = <<>> \/ b = <<>> THEN <<>>
    ELSE LET rest == BMul(a, Tail(b))
         IN  BAdd(BMulSmall(a, b[1]),
                  IF rest = <<>> THEN <<>> ELSE <<0>> \o rest)

\* a * 2^k
BShlImpl(a, k) ==
    IF a = <<>> THEN <<>>
    ELSE LET q == k \div LimbBits
             r == k % LimbBits
             hi == Pow2(LimbBits - r)
         IN  BNorm([i \in 1..(Len(a) + q + 1) |->
                      IF i <= q THEN 0
                      ELSE ((Limb(a, i - q) % hi) * Pow2(r))
                           + (Limb(a, i - q - 1) \div hi)])

\* floor(a / 2^k)
BShrImpl(a, k) ==
    LET q == k \div LimbBits
        r == k % LimbBits
        lo == Pow2(r)
    IN  IF q >= Len(a) THEN <<>>
        ELSE BNorm([i \in 1..(Len(a) - q) |->
                      (a[i + q] \div lo)
                      + (Limb(a, i + q + 1) % lo) * Pow2(LimbBits - r)])

RECURSIVE BitLenNat(_)
BitLenNat(n) == IF n = 0 THEN 0 ELSE 1 + BitLenNat(n \div 2)

BBitLenImpl(a) ==
    IF a = <<>> THEN 0 ELSE LimbBits * (Len(a) - 1) + BitLenNat(a[Len(a)])

RECURSIVE TzNat(_)
TzNat(n) == IF n % 2 = 1 THEN 0 ELSE 1 + TzNat(n \div 2)

RECURSIVE BTz(_)
\* the number of trailing zero bits of a > 0
BTz(a) == IF a[1] = 0 THEN LimbBits + BTz(Tail(a)) ELSE TzNat(a[1])

\* 2a + bit
BDoublePlusImpl(a, bit) == BAdd(BAdd(a, a), IF bit = 1 THEN <<1>> ELSE <<>>)

\* floor(r / d) for r < Base * d and d with its leading limb >= Base/2: the
\* estimate from the leading limbs is at most 2 too large
BDigitImpl(r, d) ==
    LET L == Len(d)
        top == Limb(r, L + 1) * Base + Limb(r, L)
        qhat == Min(Base - 1, top \div d[L])
        p0 == BMulSmall(d, qhat)
        p1 == BSub(p0, d)
        p2 == BSub(p1, d)
    IN  IF Len(r) < L THEN [dig |-> 0, rem |-> r]
        ELSE IF BCmp(p0, r) <= 0 THEN [dig |-> qhat, rem |-> BSub(r, p0)]
        ELSE IF BCmp(p1, r) <= 0 THEN [dig |-> qhat - 1, rem |-> BSub(r, p1)]
        ELSE [dig |-> qhat - 2, rem |-> BSub(r, p2)]

\* long division, limbs j..1 of n still to bring down, r the running remainder;
\* the quotient's limbs j..1
BDivLimbsImpl(n, d, j, r) ==
    IF j = 0 THEN [quo |-> <<>>, rem |-> r]
    ELSE LET s == BDigit(BNorm(<<n[j]>> \o r), d)
             rest == BDivLimbs(n, d, j - 1, s.rem)
         IN  [quo |-> Append(rest.quo, s.dig), rem |-> rest.rem]

\* quotient and remainder of n by d > 0
BDivModImpl(n, d) ==
    LET sh == LimbBits - BitLenNat(d[Len(d)])
        res == BDivLimbs(BShl(n, sh), BShl(d, sh), Len(BShl(n, sh)), <<>>)
    IN  [quo |-> BNorm(res.quo), rem |-> BShr(res.rem, sh)]

(***************************************************************************)
(* binary64: a float is (-1)^neg * m * 2^e with m odd, or zero.  Exponents *)
(* are unbounded: every value the script meets is far from the overflow    *)
(* and the subnormal range.  The sign of zero is not kept (the script      *)
(* never divides by a zero nor prints one with its sign).                  *)
(***************************************************************************)
Prec == 52 + 1

Zero == [neg |-> FALSE, m |-> <<>>, e |-> 0]

IsZero(x) == x.m = <<>>

\* the float of value (-1)^neg * M * 2^e for M of at most Prec bits
CanonImpl(neg, M, e) ==
    IF M = <<>> THEN Zero
    ELSE LET tz == BTz(M)
         IN  [neg |-> neg, m |-> BShr(M, tz), e |-> e + tz]

\* (-1)^neg * M * 2^e rounded to the nearest float, ties to even
FRoundImpl(neg, M, e) ==
    LET n == BBitLen(M)
    IN  IF n <= Prec THEN Canon(neg, M, e)
        ELSE LET k == n - Prec
                 q == BShr(M, k)
                 rem == BSub(M, BShl(q, k))
                 c == BCmp(rem, BShl(<<1>>, k - 1))
                 up == c > 0 \/ (c = 0 /\ q[1] % 2 = 1)
             IN  Canon(neg, IF up THEN BAdd(q, <<1>>) ELSE q, e + k)

FNeg(x) == IF IsZero(x) THEN x ELSE [x EXCEPT !.neg = ~x.neg]

\* x + y before rounding: [neg, M, e]
ExactAddImpl(x, y) ==
    IF IsZero(x) THEN [neg |-> y.neg, M |-> y.m, e |-> y.e]
    ELSE IF IsZero(y) THEN [neg |-> x.neg, M |-> x.m, e |-> x.e]
    ELSE LET e == Min(x.e, y.e)
             Mx == BShl(x.m, x.e - e)
             My == BShl(y.m, y.e - e)
             c == BCmp(Mx, My)
         IN  IF x.neg = y.neg THEN [neg |-> x.neg, M |-> BAdd(Mx, My), e |-> e]
             ELSE IF c = 0 THEN [neg |-> FALSE, M |-> <<>>, e |-> 0]
             ELSE IF c > 0 THEN [neg |-> x.neg, M |-> BSub(Mx, My), e |-> e]
             ELSE [neg |-> y.neg, M |-> BSub(My, Mx), e |-> e]

\* the position of the leading bit of x # 0: 2^(Top(x)-1) <= |x| < 2^Top(x)
Top(x) == BBitLen(x.m) + x.e

\* a float of the sign of y, not zero and below 2^-(Prec+4) times |x|: in a
\* rounded sum with x it acts as any y that far below x does
Sticky(x, y) == [neg |-> y.neg, m |-> <<1>>, e |-> Top(x) - Prec - 5]

FAddImpl(x, y) ==
    LET far == Prec + 6
        y2 == IF ~IsZero(x) /\ ~IsZero(y) /\ Top(x) - Top(y) > far
              THEN Sticky(x, y) ELSE y
        x2 == IF ~IsZero(x) /\ ~IsZero(y) /\ Top(y) - Top(x) > far
              THEN Sticky(y, x) ELSE x
        s == ExactAdd(x2, y2)
    IN  FRound(s.neg, s.M, s.e)

FSubImpl(x, y) == FAdd(x, FNeg(y))

FMulImpl(x, y) ==
    IF IsZero(x) \/ IsZero(y) THEN Zero
    ELSE FRound(x.neg # y.neg, BMul(x.m, y.m), x.e + y.e)

\* x / y for y # 0: Prec + 3 quotient bits and a sticky bit, then rounded
FDivImpl(x, y) ==
    IF IsZero(x) THEN Zero
    ELSE LET k == Max(0, Prec + 3 + BBitLen(y.m) - BBitLen(x.m))
             d == BDivMod(BShl(x.m, k), y.m)
             M == BDoublePlus(d.quo, IF d.rem = <<>> THEN 0 ELSE 1)
         IN  FRound(x.neg # y.neg, M, x.e - y.e - k - 1)

\* -1, 0, 1 as |x| < |y|, |x| = |y|, |x| > |y|
MagCmpImpl(x, y) ==
    IF IsZero(x) THEN (IF IsZero(y) THEN 0 ELSE -1)
    ELSE IF IsZero(y) THEN 1
    ELSE IF Top(x) # Top(y) THEN (IF Top(x) < Top(y) THEN -1 ELSE 1)
    ELSE LET e == Min(x.e, y.e)
         IN  BCmp(BShl(x.m, x.e - e), BShl(y.m, y.e - e))

\* -1, 0, 1 as x < y, x = y, x > y
FCmpImpl(x, y) ==
    IF x.neg # y.neg THEN (IF x.neg THEN -1 ELSE 1)
    ELSE IF x.neg THEN -MagCmp(x, y)
    ELSE MagCmp(x, y)

FLt(x, y) == FCmp(x, y) < 0

FLe(x, y) == FCmp(x, y) <= 0

FAbs(x) == [x EXCEPT !.neg = FALSE]

\* float(n) for an integer n
FIntImpl(n) == IF n < 0 THEN Canon(TRUE, BFromNat(-n), 0) ELSE Canon(FALSE, BFromNat(n), 0)

\* the float a decimal literal n/d denotes: the nearest to the exact quotient
FLitImpl(n, d) == FDiv(FInt(n), FInt(d))

\* math.ceil(x) as an integer (x of small magnitude)
FCeilImpl(x) ==
    IF IsZero(x) THEN 0
    ELSE IF x.e >= 0 THEN (IF x.neg THEN -1 ELSE 1) * BToNat(BShl(x.m, x.e))
    ELSE LET fl == BToNat(BShr(x.m, -x.e))
         IN  IF x.neg THEN -fl ELSE fl + 1

\* math.floor(x) as an integer (x of small magnitude)
FFloor(x) == -FCeil(FNeg(x))

\* x + y and x * y without rounding (any number of significand bits)
XAddImpl(x, y) == LET s == ExactAdd(x, y) IN Canon(s.neg, s.M, s.e)

XMulImpl(x, y) ==
    IF IsZero(x) \/ IsZero(y) THEN Zero
    ELSE Canon(x.neg # y.neg, BMul(x.m, y.m), x.e + y.e)

\* the operation op on the operands a
Apply(op, a) ==
    CASE op = "FAdd" -> FAddImpl(a[1], a[2])
      [] op = "FMul" -> FMulImpl(a[1], a[2])
      [] op = "FSub" -> FSubImpl(a[1], a[2])
      [] op = "FDiv" -> FDivImpl(a[1], a[2])
      [] op = "FRound" -> FRoundImpl(a[1], a[2], a[3])
      [] op = "Canon" -> CanonImpl(a[1], a[2], a[3])
      [] op = "ExactAdd" -> ExactAddImpl(a[1], a[2])
      [] op = "BShl" -> BShlImpl(a[1], a[2])
      [] op = "BShr" -> BShrImpl(a[1], a[2])
      [] op = "BAdd" -> BAddImpl(a[1], a[2])
      [] op = "BSub" -> BSubImpl(a[1], a[2])
      [] op = "BCmp" -> BCmpImpl(a[1], a[2])
      [] op = "BBitLen" -> BBitLenImpl(a[1])
      [] op = "BMul" -> BMulImpl(a[1], a[2])
      [] op = "BMulSmall" -> BMulSmallImpl(a[1], a[2])
      [] op = "FCmp" -> FCmpImpl(a[1], a[2])
      [] op = "MagCmp" -> MagCmpImpl(a[1], a[2])
      [] op = "FInt" -> FIntImpl(a[1])
      [] op = "FLit" -> FLitImpl(a[1], a[2])
      [] op = "FCeil" -> FCeilImpl(a[1])
      [] op = "BDivMod" -> BDivModImpl(a[1], a[2])
      [] op = "BDivLimbs" -> BDivLimbsImpl(a[1], a[2], a[3], a[4])
      [] op = "BDigit" -> BDigitImpl(a[1], a[2])
      [] op = "BDoublePlus" -> BDoublePlusImpl(a[1], a[2])
      [] op = "XAdd" -> XAddImpl(a[1], a[2])
      [] op = "XMul" -> XMulImpl(a[1], a[2])

\* the operands are evaluated once, then the operation is applied
Arith(op, a) == Bind(a, LAMBDA v : Apply(op, v))

(***************************************************************************)
(* The script's state: its module-level names, the position pc of the      *)
(* interpreter, the exception err that ended the run (if any), the list    *)
(* log of the statements executed so far, and whether the image file has   *)
(* been written.                                                           *)
(***************************************************************************)
VARIABLES pc, err, log, saved, printed,
          r1, r2, alpha, beta,
          XMIN, XMAX, YMIN, YMAX, h,
          X0, Y0, dt, TMAX, dt_integration,
          X_vals, Y_vals,
          sol_trivial, sol_nontriv,
          E_trivial, E_star, E_star_theorique,
          t_eval, sol

params == <<r1, r2, alpha, beta>>

bounds == <<XMIN, XMAX, YMIN, YMAX, h>>

\* dt_integration is the literal of line 229, which dt takes there; dt is
\* the only one of these names the script assigns twice
traj == <<X0, Y0, TMAX, dt_integration>>

inputs == <<params, bounds, traj>>

grid == <<X_vals, Y_vals>>

roots == <<sol_trivial, sol_nontriv>>

equilibria == <<E_trivial, E_star, E_star_theorique>>

vars == <<pc, err, log, saved, printed, inputs, dt, grid, roots, equilibria,
          t_eval, sol>>

(***************************************************************************)
(* Section 2 of the script: the parameters.  They are literals of the      *)
(* source; the runs explored are the script as written and the script with *)
(* one group of literals edited.                                           *)
(***************************************************************************)
Half == FLit(1, 2)

One == FInt(1)

Two == FInt(2)

\* r1, r2, alpha, beta as written
ConfiguredParams == <<One, One, Half, Half>>

\* XMIN, XMAX, YMIN, YMAX, h as written
ConfiguredBounds == <<FLit(-2, 10), FInt(5), FLit(-2, 10), FInt(5), FLit(5, 100)>>

\* X0, Y0, dt, TMAX (lines 68-70) and the dt of line 229, as written
ConfiguredTraj == <<One, One, FLit(1, 100), FInt(25), FLit(1, 100)>>

\* a short grid and a short trajectory, both with exact binary steps
SmallBounds == <<Zero, One, Zero, One, FLit(1, 4)>>

SmallTraj == <<One, One, FLit(1, 4), One, FLit(1, 4)>>

\* the non-trivial equilibrium (r2/beta, r1/alpha) of a parameter set
EqOf(p) == <<FDiv(p[2], p[4]), FDiv(p[1], p[3])>>

ValidParamSets ==
    { ConfiguredParams,
      <<One, One, One, One>>,
      <<FInt(7), FInt(7), FInt(7), FLit(3, 10)>>,
      <<FInt(9), FLit(1, 10), FLit(3, 4), FLit(1, 4)>>,
      <<One, Two, Half, Half>>,
      <<One, One, FLit(1, 20), FLit(1, 20)>> }

InvalidParamSets ==
    { <<One, One, Zero, Half>>,
      <<FInt(-1), One, Half, Half>>,
      <<One, Zero, Half, Half>>,
      <<One, One, Half, FLit(-1, 2)>> }

BoundsSets ==
    { ConfiguredBounds,
      <<Zero, FInt(5), Zero, FInt(5), FLit(5, 100)>>,
      <<Zero, One, Zero, One, FLit(3, 4)>>,
      <<Zero, FLit(3, 10), Zero, FLit(3, 10), FLit(1, 10)>>,
      <<Zero, One, FLit(-1, 2), Two, FLit(1, 4)>> }

\* the last but one edits TMAX only; the last one edits TMAX and the dt of
\* line 69 and leaves line 229 as written
TrajSets ==
    { ConfiguredTraj,
      <<One, One, FLit(3, 4), One, FLit(3, 4)>>,
      <<One, One, FLit(1, 10), FLit(3, 10), FLit(1, 10)>>,
      <<Two, Two, FLit(1, 4), One, FLit(1, 4)>>,
      <<One, One, FLit(1, 100), FLit(5, 1000), FLit(1, 100)>>,
      <<One, One, FLit(1, 4), One, FLit(1, 100)>> }

Scenarios ==
    { <<ConfiguredParams, ConfiguredBounds, ConfiguredTraj>>,
      <<ConfiguredParams, SmallBounds, SmallTraj>> }
    \cup { <<p, SmallBounds, SmallTraj>> : p \in ValidParamSets \cup InvalidParamSets }
    \cup { <<p, SmallBounds, <<EqOf(p)[1], EqOf(p)[2], FLit(1, 4), One, FLit(1, 4)>> >> :
             p \in {ConfiguredParams, <<One, One, One, One>>} }
    \cup { <<ConfiguredParams, b, SmallTraj>> : b \in BoundsSets }
    \cup { <<ConfiguredParams, SmallBounds, t>> : t \in TrajSets }

NoSolution == [x |-> <<Zero, Zero>>, success |-> FALSE]

NoTrajectory == [t |-> <<>>, y |-> <<>>]

Init ==
    /\ \E sc \in Scenarios :
         /\ r1 = sc[1][1] /\ r2 = sc[1][2] /\ alpha = sc[1][3] /\ beta = sc[1][4]
         /\ XMIN = sc[2][1] /\ XMAX = sc[2][2] /\ YMIN = sc[2][3]
         /\ YMAX = sc[2][4] /\ h = sc[2][5]
         /\ X0 = sc[3][1] /\ Y0 = sc[3][2] /\ dt = sc[3][3] /\ TMAX = sc[3][4]
         /\ dt_integration = sc[3][5]
    /\ pc = "params"
    /\ err = "none"
    /\ log = <<>>
    /\ saved = FALSE
    /\ printed = <<>>
    /\ X_vals = <<>> /\ Y_vals = <<>>
    /\ sol_trivial = NoSolution /\ sol_nontriv = NoSolution
    /\ E_trivial = <<>> /\ E_star = <<>> /\ E_star_theorique = <<>>
    /\ t_eval = <<>>
    /\ sol = NoTrajectory

(***************************************************************************)
(* The statements of the script, in the order the interpreter meets them.  *)
(* After(s) is the position that follows statement s.                      *)
(***************************************************************************)
\* the script with the equilibrium markers drawn along with the isoclines
StatementsMarkersFirst ==
    << "params", "grid", "field",
       "subplots", "streamplot", "contourf", "contour_dX", "contour_dY",
       "scatter_eq",
       "root_trivial", "root_nontriv", "check", "extract", "print",
       "t_eval", "solve_ivp", "plot_traj", "format", "savefig", "show" >>

Statements ==
    << "params", "grid", "field",
       "subplots", "streamplot", "contourf", "contour_dX", "contour_dY",
       "root_trivial", "root_nontriv", "check", "extract", "print",
       "scatter_eq",
       "t_eval", "solve_ivp", "plot_traj", "format", "savefig", "show" >>

IndexOf(s) == CHOOSE i \in 1..Len(Statements) : Statements[i] = s

After(s) ==
    IF IndexOf(s) = Len(Statements) THEN "done" ELSE Statements[IndexOf(s) + 1]

\* statement s ran to its end
Ran(s) ==
    /\ pc' = After(s)
    /\ log' = Append(log, s)
    /\ err' = err

\* statement s raised exception e: the interpreter stops
Raised(s, e) ==
    /\ pc' = "aborted"
    /\ log' = log
    /\ err' = e

\* the assertions with >= in place of >
ParametersValidLax ==
    /\ FLe(Zero, r1) /\ FLe(Zero, r2)
    /\ FLe(Zero, alpha) /\ FLe(Zero, beta)

\* lines 49-50: the two assertions
ParametersValid ==
    /\ FLt(Zero, r1) /\ FLt(Zero, r2)
    /\ FLt(Zero, alpha) /\ FLt(Zero, beta)

CheckParameters ==
    /\ pc = "params"
    /\ IF ParametersValid THEN Ran("params") ELSE Raised("params", "AssertionError")
    /\ UNCHANGED <<saved, printed, inputs, dt, grid, roots, equilibria, t_eval, sol>>

(***************************************************************************)
(* numpy.arange(start, stop, step) on floats: ceil((stop - start)/step)    *)
(* entries; the first two are start and start + step, and entry i is       *)
(* start + i*delta with delta = (start + step) - start.                    *)
(***************************************************************************)
arange(start, stop, step) ==
    Bind2(FAdd(start, step), FCeil(FDiv(FSub(stop, start), step)), LAMBDA next, len :
      Bind(FSub(next, start), LAMBDA delta :
        [i \in 1..Max(len, 0) |->
           IF i = 1 THEN start
           ELSE IF i = 2 THEN next
           ELSE FAdd(start, FMul(FInt(i - 1), delta))]))

\* the exclusive stop handed to arange for an axis (lines 77-78)
GridStop(upper, step) == FAdd(upper, step)

\* lines 77-79; the meshes XX[j][i] = X_vals[i], YY[j][i] = Y_vals[j]
BuildGrid ==
    /\ pc = "grid"
    /\ X_vals' = arange(XMIN, GridStop(XMAX, h), h)
    /\ Y_vals' = arange(YMIN, GridStop(YMAX, h), h)
    /\ Ran("grid")
    /\ UNCHANGED <<saved, printed, inputs, dt, roots, equilibria, t_eval, sol>>

XX(j, i) == X_vals[i]

YY(j, i) == Y_vals[j]

\* lines 81-84
f(X, Y) ==
    LET X_prime == FSub(FMul(r1, X), FMul(FMul(alpha, X), Y))
        Y_prime == FSub(FMul(FMul(beta, X), Y), FMul(r2, Y))
    IN  <<X_prime, Y_prime>>

\* line 86: the field on the mesh, f applied element by element
X_prime(j, i) == f(XX(j, i), YY(j, i))[1]

Y_prime(j, i) == f(XX(j, i), YY(j, i))[2]

EvalField ==
    /\ pc = "field"
    /\ Ran("field")
    /\ UNCHANGED <<saved, printed, inputs, dt, grid, roots, equilibria, t_eval, sol>>

\* lines 91-139: the figure, the streamlines, the mask, the two isoclines
RenderBefore == {"subplots", "streamplot", "contourf", "contour_dX", "contour_dY"}

\* lines 198-215 and 241-301: the markers, the trajectory, the layout
RenderAfter == {"scatter_eq", "plot_traj", "format"}

Render ==
    /\ pc \in RenderBefore \cup RenderAfter
    /\ Ran(pc)
    /\ UNCHANGED <<saved, printed, inputs, dt, grid, roots, equilibria, t_eval, sol>>

\* f_vec with the interaction term of the prey entered with a plus sign
f_vecSlip(z) ==
    LET X == z[1]
        Y == z[2]
    IN  <<FAdd(FMul(r1, X), FMul(FMul(alpha, X), Y)),
          FSub(FMul(FMul(beta, X), Y), FMul(r2, Y))>>

\* lines 161-165
f_vec(z) ==
    LET X == z[1]
        Y == z[2]
    IN  <<FSub(FMul(r1, X), FMul(FMul(alpha, X), Y)),
          FSub(FMul(FMul(beta, X), Y), FMul(r2, Y))>>

\* lines 168-169
initial_guess_trivial == <<FLit(1, 10^8), FLit(1, 10^8)>>

initial_guess_nontrivial == <<Two, Two>>

(***************************************************************************)
(* scipy.optimize.root(f_vec, guess), lines 172 and 174.  The script passes *)
(* neither a method nor a Jacobian, and the iteration runs inside the       *)
(* library; the script reads two things off the result, the point .x and   *)
(* the flag .success.  Neither is determined by the script: the point can  *)
(* be any pair of floats and the flag either value.  The points explored   *)
(* are the guess itself, the two zeros of the field that the script names  *)
(* (lines 185-186) and a point that is none of these.                      *)
(***************************************************************************)
RootOutcomes(guess) ==
    { guess, <<Zero, Zero>>, <<FDiv(r2, beta), FDiv(r1, alpha)>>,
      <<FSub(guess[1], One), FAdd(guess[2], One)>> }

\* the result of one call: the fields .x and .success
root(x, ok) == [x |-> x, success |-> ok]

\* line 172
RootTrivial ==
    /\ pc = "root_trivial"
    /\ \E x \in RootOutcomes(initial_guess_trivial), ok \in BOOLEAN :
         sol_trivial' = root(x, ok)
    /\ Ran("root_trivial")
    /\ UNCHANGED <<saved, printed, inputs, dt, grid, sol_nontriv, equilibria, t_eval, sol>>

\* line 174
RootNontrivial ==
    /\ pc = "root_nontriv"
    /\ \E x \in RootOutcomes(initial_guess_nontrivial), ok \in BOOLEAN :
         sol_nontriv' = root(x, ok)
    /\ Ran("root_nontriv")
    /\ UNCHANGED <<saved, printed, inputs, dt, grid, sol_trivial, equilibria, t_eval, sol>>

\* the test of line 177 with "and" in place of "or"
ConvergenceFailedBoth == ~sol_trivial.success /\ ~sol_nontriv.success

\* line 177
ConvergenceFailed == ~sol_trivial.success \/ ~sol_nontriv.success

\* lines 177-178
CheckConvergence ==
    /\ pc = "check"
    /\ IF ConvergenceFailed THEN Raised("check", "RuntimeError") ELSE Ran("check")
    /\ UNCHANGED <<saved, printed, inputs, dt, grid, roots, equilibria, t_eval, sol>>

\* line 181: the point tagged as the trivial equilibrium
ExtractTrivial == sol_trivial.x

\* line 182: the point tagged as the non-trivial equilibrium
ExtractStar == sol_nontriv.x

E_trivial_theorique == <<Zero, Zero>>

\* lines 181-186
Extract ==
    /\ pc = "extract"
    /\ E_trivial' = ExtractTrivial
    /\ E_star' = ExtractStar
    /\ E_star_theorique' = <<FDiv(r2, beta), FDiv(r1, alpha)>>
    /\ Ran("extract")
    /\ UNCHANGED <<saved, printed, inputs, dt, grid, roots, t_eval, sol>>

\* lines 189-195: the four points reported, each under its label (the
\* decimal formatting of the coordinates is not modelled)
PrintEquilibria ==
    /\ pc = "print"
    /\ printed' = << <<"theorique", "Trivial", E_trivial_theorique>>,
                     <<"theorique", "Non trivial", E_star_theorique>>,
                     <<"Newton", "Trivial", E_trivial>>,
                     <<"Newton", "Non trivial", E_star>> >>
    /\ Ran("print")
    /\ UNCHANGED <<saved, inputs, dt, grid, roots, equilibria, t_eval, sol>>

\* lines 220-225: the right-hand side handed to solve_ivp, which calls it
\* inside the library
f_for_solve_ivp(t, Z) == Bind(Z, LAMBDA z : f(z[1], z[2]))

\* line 228
t_range == <<Zero, TMAX>>

\* lines 229-230: dt is assigned anew, then the output times are built from
\* the new dt
BuildTEval ==
    /\ pc = "t_eval"
    /\ dt' = dt_integration
    /\ t_eval' = arange(Zero, FAdd(TMAX, dt'), dt')
    /\ Ran("t_eval")
    /\ UNCHANGED <<saved, printed, inputs, grid, roots, equilibria, sol>>

(***************************************************************************)
(* scipy.integrate.solve_ivp(f_for_solve_ivp, t_range, [X0, Y0],           *)
(* t_eval=t_eval, method='DOP853', dense_output=True), lines 231-238.      *)
(*                                                                         *)
(* The call refuses output times outside t_range or out of order           *)
(* (ValueError).  Otherwise the integration runs inside the library, which *)
(* calls f_for_solve_ivp; the steps it takes and the values it returns are *)
(* not determined by the script.  The result holds the output times it was *)
(* given and one pair of floats per output time; the pair at the initial   *)
(* time is the initial state, and every later pair can be any pair of      *)
(* floats.  The later pairs explored are the initial state, a point next   *)
(* to it and a point outside the positive quadrant.                        *)
(***************************************************************************)
TEvalAccepted ==
    /\ \A i \in DOMAIN t_eval :
         FLe(t_range[1], t_eval[i]) /\ FLe(t_eval[i], t_range[2])
    /\ \A i \in DOMAIN t_eval : i > 1 => FLt(t_eval[i - 1], t_eval[i])

IvpOutcomes ==
    { <<X0, Y0>>, <<FAdd(X0, FLit(1, 10^8)), Y0>>, <<FSub(X0, dt), FNeg(Y0)>> }

\* the result's .t and .y; y[i] is column i of the source's sol.y, the pair
\* (sol.y[0][i], sol.y[1][i]); mid and last are the pairs the library
\* returns up to and after the middle output time
solve_ivp(mid, last) ==
    [t |-> t_eval,
     y |-> [i \in DOMAIN t_eval |->
              IF FLe(t_eval[i], t_range[1]) THEN <<X0, Y0>>
              ELSE IF 2 * i <= Len(t_eval) + 1 THEN mid ELSE last]]

\* lines 231-238
SolveIvp ==
    /\ pc = "solve_ivp"
    /\ IF TEvalAccepted
       THEN /\ \E mid \in IvpOutcomes, last \in IvpOutcomes :
                 sol' = solve_ivp(mid, last)
            /\ Ran("solve_ivp")
       ELSE /\ sol' = sol
            /\ Raised("solve_ivp", "ValueError")
    /\ UNCHANGED <<saved, printed, inputs, dt, grid, roots, equilibria, t_eval>>

\* lines 304-305: the image file is written
SaveFigure ==
    /\ pc = "savefig"
    /\ saved' = TRUE
    /\ Ran("savefig")
    /\ UNCHANGED <<printed, inputs, dt, grid, roots, equilibria, t_eval, sol>>

\* line 307
Show ==
    /\ pc = "show"
    /\ Ran("show")
    /\ UNCHANGED <<saved, printed, inputs, dt, grid, roots, equilibria, t_eval, sol>>

Next ==
    \/ CheckParameters
    \/ BuildGrid
    \/ EvalField
    \/ Render
    \/ RootTrivial
    \/ RootNontrivial
    \/ CheckConvergence
    \/ Extract
    \/ PrintEquilibria
    \/ BuildTEval
    \/ SolveIvp
    \/ SaveFigure
    \/ Show

Spec == Init /\ [][Next]_vars

(***************************************************************************)
(* The properties checked of the script.  Done(s) says that statement s    *)
(* ran to its end; Count(s) is the number of times it did.                 *)
(***************************************************************************)
Done(s) == \E i \in DOMAIN log : log[i] = s

Count(s) == Cardinality({ i \in DOMAIN log : log[i] = s })

AllPositive == \A p \in {r1, r2, alpha, beta} : FLt(Zero, p)

NothingComputed ==
    /\ log = <<>> /\ printed = <<>> /\ ~saved
    /\ X_vals = <<>> /\ Y_vals = <<>>
    /\ sol_trivial = NoSolution /\ sol_nontriv = NoSolution
    /\ E_trivial = <<>> /\ E_star = <<>>
    /\ t_eval = <<>> /\ sol = NoTrajectory

\* C1: when one of r1, r2, alpha, beta is not strictly positive, the run
\* stops on the assertion at start-up with nothing computed: no grid, no
\* solve, no trajectory, nothing rendered, printed or saved, then or later.
C1_FailFast ==
    (~AllPositive /\ pc # "params") =>
        /\ pc = "aborted" /\ err = "AssertionError"
        /\ NothingComputed

\* a run with alpha = 0 that was stopped by the assertion
C1_Witness ==
    /\ IsZero(alpha) /\ FLt(Zero, r1) /\ FLt(Zero, r2) /\ FLt(Zero, beta)
    /\ pc = "aborted" /\ err = "AssertionError"

SolveFailed == ~sol_trivial.success \/ ~sol_nontriv.success

\* C2: each of the two solves is attempted once and never again; when either
\* reports failure the convergence check stops the run with the
\* non-convergence error and neither the markers, the trajectory nor the
\* file are produced; a file is written only if both solves succeeded.
C2_AllOrNothing ==
    /\ Count("root_trivial") <= 1 /\ Count("root_nontriv") <= 1
    /\ (Done("root_nontriv") /\ pc # "check") =>
          IF SolveFailed
          THEN /\ pc = "aborted" /\ err = "RuntimeError"
               /\ ~saved /\ sol = NoTrajectory /\ printed = <<>>
               /\ \A s \in RenderAfter \cup {"savefig", "show"} : ~Done(s)
          ELSE Done("check")
    /\ saved => /\ Count("root_trivial") = 1 /\ Count("root_nontriv") = 1
                /\ ~SolveFailed

\* the solve from the trivial guess succeeded, the other one failed, and
\* the check stopped the run
C2_Witness ==
    /\ pc = "aborted" /\ err = "RuntimeError"
    /\ sol_trivial.success /\ ~sol_nontriv.success
    /\ Count("root_trivial") = 1 /\ Count("root_nontriv") = 1

Rendering == RenderBefore \cup RenderAfter \cup {"savefig", "show"}

PrecededBy(i, s) == \E j \in 1..(i - 1) : log[j] = s

\* C3 as stated: no rendering before both solves and the convergence check
\* and the integration are over; a non-convergence abort comes before any
\* rendering.
C3_RenderLast ==
    /\ \A i \in DOMAIN log :
         log[i] \in Rendering => PrecededBy(i, "check") /\ PrecededBy(i, "solve_ivp")
    /\ err = "RuntimeError" => \A s \in Rendering : ~Done(s)

\* the stage of the script a statement belongs to
Stage(s) ==
    CASE s = "params" -> 0
      [] s = "grid" -> 1
      [] s = "field" -> 2
      [] s \in RenderBefore -> 3
      [] s \in {"root_trivial", "root_nontriv", "check"} -> 4
      [] s \in {"extract", "print", "scatter_eq"} -> 5
      [] s \in {"t_eval", "solve_ivp"} -> 6
      [] s \in {"plot_traj", "format", "savefig", "show"} -> 7

\* C3: the stages run in the order grid, field, figure with streamlines,
\* mask and isoclines, the two solves and their check, the equilibria's
\* extraction, report and markers, the integration, then the trajectory
\* plot, the layout and the file.  The markers, the trajectory plot, the
\* layout and the file never come before the check, the check never before
\* both solves, the trajectory plot, the layout and the file never before
\* the integration; a non-convergence abort comes after the figure,
\* streamlines, mask and isoclines were drawn and before anything else is.
C3_StageOrder ==
    /\ \A i, j \in DOMAIN log : i < j => Stage(log[i]) <= Stage(log[j])
    /\ \A i \in DOMAIN log :
         /\ log[i] \in RenderAfter \cup {"savefig", "show"} => PrecededBy(i, "check")
         /\ log[i] \in {"plot_traj", "format", "savefig", "show"} =>
               PrecededBy(i, "solve_ivp")
         /\ log[i] \in {"root_trivial", "root_nontriv"} =>
               \A s \in RenderBefore \cup {"grid", "field"} : PrecededBy(i, s)
         /\ log[i] = "check" =>
               PrecededBy(i, "root_trivial") /\ PrecededBy(i, "root_nontriv")
    /\ err = "RuntimeError" =>
         /\ \A s \in RenderBefore : Done(s)
         /\ \A s \in RenderAfter \cup {"savefig", "show"} : ~Done(s)

\* the check stopped a run whose figure already holds the isoclines
C3_Witness ==
    /\ pc = "aborted" /\ err = "RuntimeError"
    /\ Done("subplots") /\ Done("contour_dY") /\ ~Done("scatter_eq")

\* 2^-50, four units in the last place of a float in [1, 2)
RoundingUnit == FMul(FLit(1, 2^25), FLit(1, 2^25))

WithinRounding(v, scale) == FLe(FAbs(v), FMul(RoundingUnit, FAbs(scale)))

FloatEquilibrium == <<FDiv(r2, beta), FDiv(r1, alpha)>>

\* v is (0, 0) up to the rounding of the products r1 X and r2 Y at p
ZeroAt(v, p) ==
    /\ WithinRounding(v[1], FMul(r1, p[1]))
    /\ WithinRounding(v[2], FMul(r2, p[2]))

\* C4: for strictly positive parameters, f and f_vec both give exactly
\* (0, 0) at (0, 0), and (0, 0) up to rounding at (r2/beta, r1/alpha).
C4_EquilibriaAreZeros ==
    AllPositive =>
        /\ f(Zero, Zero) = <<Zero, Zero>>
        /\ f_vec(<<Zero, Zero>>) = <<Zero, Zero>>
        /\ ZeroAt(f(FloatEquilibrium[1], FloatEquilibrium[2]), FloatEquilibrium)
        /\ ZeroAt(f_vec(FloatEquilibrium), FloatEquilibrium)
        /\ f_vec(FloatEquilibrium) = f(FloatEquilibrium[1], FloatEquilibrium[2])

\* the field was evaluated for parameters at which rounding leaves a
\* residue at the equilibrium
C4_Witness ==
    /\ AllPositive /\ Done("field")
    /\ f_vec(FloatEquilibrium) # <<Zero, Zero>>

\* hi = lo + k step for a whole k, in exact arithmetic
ExactMultiple(lo, hi, step) ==
    \E k \in 1..Len(X_vals) + Len(Y_vals) : XAdd(lo, XMul(FInt(k), step)) = hi

CellCount(lo, hi, step) == FFloor(FDiv(FSub(hi, lo), step)) + 1

\* the axis vals covers [lo, hi], upper bound included
AxisInclusive(vals, lo, hi) ==
    /\ Len(vals) >= 1
    /\ vals[1] = lo
    /\ \A i \in 1..(Len(vals) - 1) :
         WithinRounding(FSub(FSub(vals[i + 1], vals[i]), h), FAdd(FAbs(lo), FAbs(hi)))
    /\ FLe(hi, vals[Len(vals)])
    /\ Len(vals) \in (CellCount(lo, hi, h) - 1)..(CellCount(lo, hi, h) + 1)

\* C5 as stated: each axis starts at its lower bound, advances by the step
\* (up to the rounding of its entries), reaches at least its upper bound, and has
\* floor((upper - lower)/step) + 1 entries, give or take one.
C5_UpperBoundIncluded ==
    Done("grid") =>
        /\ AxisInclusive(X_vals, XMIN, XMAX)
        /\ AxisInclusive(Y_vals, YMIN, YMAX)

\* the axis vals stays below hi + step/2 and holds hi when hi is a whole
\* number of steps from lo
AxisHalfStep(vals, lo, hi) ==
    /\ GridStop(hi, h) = FAdd(hi, FMul(Half, h))
    /\ \A i \in DOMAIN vals : FLt(vals[i], FAdd(hi, FMul(Half, h)))
    /\ ExactMultiple(lo, hi, h) => \E i \in DOMAIN vals : vals[i] = hi

\* C6 as stated: the exclusive stop of each axis is its upper bound plus
\* half a step, so the upper bound is an entry when it is a whole number of
\* steps from the lower bound and no entry reaches upper + step/2.
C6_HalfStepMargin ==
    Done("grid") =>
        /\ AxisHalfStep(X_vals, XMIN, XMAX)
        /\ AxisHalfStep(Y_vals, YMIN, YMAX)

\* C10 as stated: the output times start at 0, increase strictly, are the
\* multiples of dt, and none lies beyond TMAX.
C10_OutputTimesWithinSpan ==
    Done("t_eval") =>
        /\ Len(t_eval) >= 1
        /\ t_eval[1] = Zero
        /\ \A i \in DOMAIN t_eval : t_eval[i] = FMul(FInt(i - 1), dt)
        /\ \A i \in DOMAIN t_eval : i > 1 => FLt(t_eval[i - 1], t_eval[i])
        /\ \A i \in DOMAIN t_eval : FLe(t_eval[i], TMAX)
====
